---- MODULE Spec2Model ----
(***************************************************************************)
(* Model of the mage controller of magic-mania (src/src/mage.rs).          *)
(*                                                                         *)
(* One frame of the Bevy app runs, in this order:                          *)
(*   First/PreUpdate : Time is updated, the InputManagerPlugin systems     *)
(*                     tick and update the ActionStates,                   *)
(*   PreUpdate       : copy_action_state (after ManualControl),            *)
(*   Update          : the chain use_spell -> movevement -> animate_mage,  *)
(*                     and report_spells_used, which is not ordered        *)
(*                     against the chain.                                  *)
(*                                                                         *)
(* Time is counted in quarter seconds: 1 = 0.25 s, so the 0.5 s timers     *)
(* have duration 2.  time.delta() has one reader, animate_mage, which      *)
(* takes it as its input.                                                  *)
(***************************************************************************)
EXTENDS Integers, FiniteSets, Sequences, TLC

\* ------------------------------------------------------------------------
\* Bounds of the model
\* ------------------------------------------------------------------------

\* Largest frame delta, in quarter seconds (0 is the delta of the first frame).
MaxDelta == 3

Deltas == 0..MaxDelta

Min(a, b) == IF a < b THEN a ELSE b

\* The scenario observers follow this many frames from the initial state.
ScenarioFrames == 3

\* ------------------------------------------------------------------------
\* Program constants
\* ------------------------------------------------------------------------

\* Timer::from_seconds(0.5, TimerMode::Once), in quarter seconds
SpellCooldownDuration == 2

\* Timer::from_seconds(0.5, TimerMode::Repeating), in quarter seconds
FrameTimerDuration == 2

\* velocity.x = 10.0 / velocity.y = 10.0
WalkSpeed == 10

\* sprite.index = 2 (attack pose)
AttackFrame == 2

\* (mutant) the attack pose is left on display when the cast ends
IdleFrameStale == AttackFrame

\* sprite.index = 0 (idle pose)
IdleFrame == 0

\* TextureAtlas::from_grid(.., 3, 1, ..): number of frames of the atlas
AtlasColumns == 3

\* (0..=1).cycle(): last frame of the walk cycle
WalkCycleEnd == 1

\* ------------------------------------------------------------------------
\* Types
\* ------------------------------------------------------------------------

Directions == {"Up", "Down", "Left", "Right"}

MageActions == Directions \cup {"SpellPrimary", "SpellSecondary"}

Spell == {"BlastLaunch", "BlastActivate"}

ButtonState == {"Released", "JustReleased", "Pressed", "JustPressed"}

\* ActionData as far as the program observes it: the button state.  The
\* program only asks pressed() of the four directions, so for them
\* "Pressed" stands for both Pressed and JustPressed and "Released" for
\* both Released and JustReleased.
ActionData == [state : ButtonState]

\* ActionState::default(): every action released
DefaultActionData == [state |-> "Released"]

\* spell_slot_map.insert(SpellPrimary, BlastLaunch); insert(SpellSecondary, BlastActivate)
SpellSlotMap == [a \in {"SpellPrimary", "SpellSecondary"} |->
                    IF a = "SpellPrimary" THEN "BlastLaunch" ELSE "BlastActivate"]

\* ------------------------------------------------------------------------
\* State
\* ------------------------------------------------------------------------

VARIABLES
    pc,               \* the next system of the frame
    slot_state,       \* ActionState<MageActions>
    spell_state,      \* ActionState<Spell>
    firing_spell,     \* Mage.firing_spell
    is_walking,       \* Mage.is_walking
    spell_cooldown,   \* Mage.spell_cooldown
    frame_timer,      \* RepeatingAnimation.frame_timer
    next_frame_index, \* RepeatingAnimation.next_frame_index: what next() yields
    sprite_index,     \* TextureAtlasSprite.index
    velocity,         \* LinearVelocity
    reported,         \* report_spells_used has run in this frame
    dbg_out,          \* the spells report_spells_used printed in this frame
    \* Observers: they record what happened and no system reads them.
    cast_began,       \* use_spell started a cast in this frame
    cast_sum,         \* sum of the frame deltas since, and with, the frame the cast began
    hold_frames,      \* frames completed with only D down since the start, -1 when over
    hold_total,       \* sum of the deltas of those frames
    cast_frames,      \* frames animate_mage has run in the cast, with the one it began in
    cast_min,         \* smallest delta of those frames
    dropped_hold,     \* use_spell saw a press during a cast and Q is down since
    runs              \* two runs of the app side by side, stepped by SpecPair only

vars == <<pc, slot_state, spell_state, firing_spell, is_walking,
          spell_cooldown, frame_timer, next_frame_index, sprite_index,
          velocity, reported, dbg_out, cast_began, cast_sum, hold_frames,
          hold_total, cast_frames, cast_min, dropped_hold, runs>>

observers == <<cast_began, cast_sum, hold_frames, hold_total, cast_frames,
               cast_min, dropped_hold, runs>>

\* Everything but the two side-by-side runs
single == <<pc, slot_state, spell_state, firing_spell, is_walking,
            spell_cooldown, frame_timer, next_frame_index, sprite_index,
            velocity, reported, dbg_out, cast_began, cast_sum, hold_frames,
            hold_total, cast_frames, cast_min, dropped_hold>>

\* cast_sum saturates here
CastSumCap == SpellCooldownDuration + MaxDelta + 1

\* cast_frames saturates here
CastFramesCap == SpellCooldownDuration + 1

\* ------------------------------------------------------------------------
\* leafwing-input-manager: ButtonState and ActionState
\* ------------------------------------------------------------------------

IsPressed(a) == a.state \in {"Pressed", "JustPressed"}

IsJustPressed(a) == a.state = "JustPressed"

\* ActionState::tick: the Just* states decay
ActionDataTick(a) ==
    [state |-> CASE a.state = "JustPressed"  -> "Pressed"
                 [] a.state = "JustReleased" -> "Released"
                 [] OTHER                    -> a.state]

\* ActionState::press: a released action becomes JustPressed
ActionDataPress(a) ==
    IF IsPressed(a) THEN a ELSE [state |-> "JustPressed"]

\* ActionState::release: a pressed action becomes JustReleased
ActionDataRelease(a) ==
    IF IsPressed(a) THEN [state |-> "JustReleased"] ELSE a

\* tick_action_state then update_action_state for one action of
\* ActionState<MageActions>, given whether its key is down
SlotUpdate(action, a, down) ==
    IF action \in Directions
    THEN [state |-> IF down THEN "Pressed" ELSE "Released"]
    ELSE IF down THEN ActionDataPress(ActionDataTick(a))
                 ELSE ActionDataRelease(ActionDataTick(a))

\* ------------------------------------------------------------------------
\* bevy Timer
\* ------------------------------------------------------------------------

\* Timer::from_seconds: nothing elapsed, not finished
NewTimer == [elapsed |-> 0, finished |-> FALSE, times_finished |-> 0]

\* (mutant) the timer finishes only when strictly more than dur has elapsed
TimerTickOnceLate(t, dur, d) ==
    IF t.finished
    THEN [t EXCEPT !.times_finished = 0]
    ELSE IF t.elapsed + d > dur
         THEN [elapsed |-> dur, finished |-> TRUE, times_finished |-> 1]
         ELSE [elapsed |-> Min(t.elapsed + d, dur), finished |-> FALSE,
               times_finished |-> 0]

\* (mutant) the elapsed time is not kept from one tick to the next
TimerTickOnceNoAdvance(t, dur, d) ==
    IF t.finished
    THEN [t EXCEPT !.times_finished = 0]
    ELSE IF d >= dur
         THEN [elapsed |-> dur, finished |-> TRUE, times_finished |-> 1]
         ELSE [elapsed |-> 0, finished |-> FALSE, times_finished |-> 0]

\* Timer::tick for TimerMode::Once with the given duration
TimerTickOnce(t, dur, d) ==
    IF t.finished
    THEN [t EXCEPT !.times_finished = 0]
    ELSE IF t.elapsed + d >= dur
         THEN [elapsed |-> dur, finished |-> TRUE, times_finished |-> 1]
         ELSE [elapsed |-> t.elapsed + d, finished |-> FALSE, times_finished |-> 0]

\* Timer::tick for TimerMode::Repeating with the given duration
TimerTickRepeating(t, dur, d) ==
    IF t.elapsed + d >= dur
    THEN [elapsed        |-> (t.elapsed + d) % dur,
          finished       |-> TRUE,
          times_finished |-> (t.elapsed + d) \div dur]
    ELSE [elapsed |-> t.elapsed + d, finished |-> FALSE, times_finished |-> 0]

\* Timer::just_finished
JustFinished(t) == t.times_finished > 0

\* (mutant) the reset is left out
TimerResetNone(t) == t

\* Timer::reset
TimerReset(t) == NewTimer

\* (mutant) the walk cycle runs past its last frame
CycleAdvanceNoWrap(i) == IF i >= AtlasColumns THEN i ELSE i + 1

\* Cycle<RangeInclusive<i32>>::next over 0..=1: the position after a next()
CycleAdvance(i) == IF i >= WalkCycleEnd THEN 0 ELSE i + 1

\* ------------------------------------------------------------------------
\* Initial state: after setup_mage
\* ------------------------------------------------------------------------

\* The mage and its frame position as one record, as setup_mage leaves it
InitRun ==
    [pc               |-> "input",
     slot_state       |-> [a \in MageActions |-> DefaultActionData],
     spell_state      |-> [s \in Spell |-> DefaultActionData],
     firing_spell     |-> FALSE,
     is_walking       |-> FALSE,
     spell_cooldown   |-> NewTimer,
     frame_timer      |-> NewTimer,
     next_frame_index |-> CycleAdvance(0),
     sprite_index     |-> 0,
     velocity         |-> [x |-> 0, y |-> 0],
     reported         |-> TRUE,
     dbg_out          |-> {}]

Init ==
    /\ pc = "input"
    /\ slot_state = [a \in MageActions |-> DefaultActionData]
    /\ spell_state = [s \in Spell |-> DefaultActionData]
    /\ firing_spell = FALSE
    /\ is_walking = FALSE
    /\ spell_cooldown = NewTimer
    /\ frame_timer = NewTimer
    /\ next_frame_index = CycleAdvance(0)
    /\ sprite_index = 0
    /\ velocity = [x |-> 0, y |-> 0]
    /\ reported = TRUE
    /\ dbg_out = {}
    /\ cast_began = FALSE
    /\ cast_sum = 0
    /\ hold_frames = 0
    /\ hold_total = 0
    /\ cast_frames = 0
    /\ cast_min = MaxDelta
    /\ dropped_hold = FALSE
    /\ runs = [a |-> InitRun, b |-> InitRun]

\* ------------------------------------------------------------------------
\* Systems
\* ------------------------------------------------------------------------

\* The start of a frame: the InputManagerPlugin systems tick both
\* ActionStates and update ActionState<MageActions> from the keys that are
\* down (the mage has no InputMap<Spell>).
InputManager(keys) ==
    /\ pc = "input"
    /\ reported
    /\ slot_state' = [a \in MageActions |-> SlotUpdate(a, slot_state[a], a \in keys)]
    /\ spell_state' = [s \in Spell |-> ActionDataTick(spell_state[s])]
    /\ pc' = "copy"
    /\ cast_began' = FALSE
    /\ cast_sum' = IF firing_spell THEN cast_sum ELSE 0
    /\ cast_frames' = IF firing_spell THEN cast_frames ELSE 0
    /\ cast_min' = IF firing_spell THEN cast_min ELSE MaxDelta
    /\ dropped_hold' = (dropped_hold /\ "SpellPrimary" \in keys)
    /\ hold_frames' = IF hold_frames \in 0..(ScenarioFrames - 1) /\ keys = {"Right"}
                      THEN hold_frames ELSE -1
    /\ hold_total' = IF hold_frames \in 0..(ScenarioFrames - 1) /\ keys = {"Right"}
                     THEN hold_total ELSE 0
    /\ UNCHANGED <<firing_spell, is_walking, spell_cooldown, frame_timer,
                   next_frame_index, sprite_index, velocity, reported, dbg_out,
                   runs>>

\* (mutant) the loop of copy_action_state stops after the first slot
CopiedSpellStateFirstOnly(slots, spells) ==
    [s \in Spell |-> IF s = SpellSlotMap["SpellPrimary"]
                     THEN slots["SpellPrimary"] ELSE spells[s]]

\* The ActionState<Spell> copy_action_state leaves: every spell that a slot
\* maps to gets the ActionData of that slot
CopiedSpellState(slots, spells) ==
    [s \in Spell |->
        IF \E slot \in DOMAIN SpellSlotMap : SpellSlotMap[slot] = s
        THEN slots[CHOOSE slot \in DOMAIN SpellSlotMap : SpellSlotMap[slot] = s]
        ELSE spells[s]]

\* copy_action_state
CopyActionState ==
    /\ pc = "copy"
    /\ spell_state' = CopiedSpellState(slot_state, spell_state)
    /\ pc' = "use_spell"
    /\ reported' = FALSE
    /\ dbg_out' = {}
    /\ UNCHANGED <<slot_state, firing_spell, is_walking, spell_cooldown,
                   frame_timer, next_frame_index, sprite_index, velocity>>
    /\ UNCHANGED observers

\* report_spells_used: runs once per frame, anywhere in Update
ReportSpellsUsed ==
    /\ pc \in {"use_spell", "movevement", "animate_mage", "input"}
    /\ ~reported
    /\ reported' = TRUE
    /\ dbg_out' = {s \in Spell : IsJustPressed(spell_state[s])}
    /\ UNCHANGED <<pc, slot_state, spell_state, firing_spell, is_walking,
                   spell_cooldown, frame_timer, next_frame_index, sprite_index,
                   velocity>>
    /\ UNCHANGED observers

\* (mutant) use_spell fires while the button is down
BlastLaunchedHeld(spells) == IsPressed(spells["BlastLaunch"])

\* (mutant) use_spell fires on any spell that was just pressed
BlastLaunchedAny(spells) == \E sp \in Spell : IsJustPressed(spells[sp])

\* action_state.just_pressed(Spell::BlastLaunch)
BlastLaunched(spells) == IsJustPressed(spells["BlastLaunch"])

\* (mutant) use_spell restarts the cooldown on every press
UseSpellRestarts ==
    /\ pc = "use_spell"
    /\ firing_spell' = IF BlastLaunched(spell_state) THEN TRUE ELSE firing_spell
    /\ spell_cooldown' = IF BlastLaunched(spell_state) THEN NewTimer ELSE spell_cooldown
    /\ pc' = "movevement"
    /\ cast_began' = (~firing_spell /\ firing_spell')
    /\ cast_sum' = IF ~firing_spell /\ firing_spell' THEN 0 ELSE cast_sum
    /\ cast_frames' = IF ~firing_spell /\ firing_spell' THEN 0 ELSE cast_frames
    /\ cast_min' = IF ~firing_spell /\ firing_spell' THEN MaxDelta ELSE cast_min
    /\ dropped_hold' = (dropped_hold \/ (firing_spell /\ IsJustPressed(spell_state["BlastLaunch"])))
    /\ UNCHANGED <<slot_state, spell_state, is_walking,
                   frame_timer, next_frame_index, sprite_index, velocity,
                   reported, dbg_out, hold_frames, hold_total, runs>>

\* (mutant) use_spell shows the attack pose itself
UseSpellShowsAttack ==
    /\ pc = "use_spell"
    /\ firing_spell' = IF BlastLaunched(spell_state) THEN TRUE ELSE firing_spell
    /\ sprite_index' = IF BlastLaunched(spell_state) THEN AttackFrame ELSE sprite_index
    /\ pc' = "movevement"
    /\ cast_began' = (~firing_spell /\ firing_spell')
    /\ cast_sum' = IF ~firing_spell /\ firing_spell' THEN 0 ELSE cast_sum
    /\ cast_frames' = IF ~firing_spell /\ firing_spell' THEN 0 ELSE cast_frames
    /\ cast_min' = IF ~firing_spell /\ firing_spell' THEN MaxDelta ELSE cast_min
    /\ dropped_hold' = (dropped_hold \/ (firing_spell /\ IsJustPressed(spell_state["BlastLaunch"])))
    /\ UNCHANGED <<slot_state, spell_state, is_walking, spell_cooldown,
                   frame_timer, next_frame_index, velocity,
                   reported, dbg_out, hold_frames, hold_total, runs>>

\* use_spell
UseSpell ==
    /\ pc = "use_spell"
    /\ firing_spell' = IF BlastLaunched(spell_state) THEN TRUE ELSE firing_spell
    /\ pc' = "movevement"
    /\ cast_began' = (~firing_spell /\ firing_spell')
    /\ cast_sum' = IF ~firing_spell /\ firing_spell' THEN 0 ELSE cast_sum
    /\ cast_frames' = IF ~firing_spell /\ firing_spell' THEN 0 ELSE cast_frames
    /\ cast_min' = IF ~firing_spell /\ firing_spell' THEN MaxDelta ELSE cast_min
    /\ dropped_hold' = (dropped_hold \/ (firing_spell /\ IsJustPressed(spell_state["BlastLaunch"])))
    /\ UNCHANGED <<slot_state, spell_state, is_walking, spell_cooldown,
                   frame_timer, next_frame_index, sprite_index, velocity,
                   reported, dbg_out, hold_frames, hold_total, runs>>

\* (mutant) Right is tested after Left and Up after Down
WalkVelocityRightLast(st) ==
    [x |-> IF IsPressed(st["Right"]) THEN WalkSpeed
           ELSE IF IsPressed(st["Left"]) THEN -WalkSpeed ELSE 0,
     y |-> IF IsPressed(st["Up"]) THEN WalkSpeed
           ELSE IF IsPressed(st["Down"]) THEN -WalkSpeed ELSE 0]

\* The velocity movevement computes from the pressed directions when the
\* mage is not casting: Right, Left, Up, Down are tested in this order and
\* the later write wins on each axis.
WalkVelocity(st) ==
    [x |-> IF IsPressed(st["Left"]) THEN -WalkSpeed
           ELSE IF IsPressed(st["Right"]) THEN WalkSpeed ELSE 0,
     y |-> IF IsPressed(st["Down"]) THEN -WalkSpeed
           ELSE IF IsPressed(st["Up"]) THEN WalkSpeed ELSE 0]

\* (mutant) movevement without the early return
MovevementNoReturn ==
    /\ pc = "movevement"
    /\ velocity' = WalkVelocity(slot_state)
    /\ is_walking' = \E a \in Directions : IsPressed(slot_state[a])
    /\ pc' = "animate_mage"
    /\ UNCHANGED <<slot_state, spell_state, firing_spell, spell_cooldown,
                   frame_timer, next_frame_index, sprite_index, reported, dbg_out>>
    /\ UNCHANGED observers

\* (mutant) movevement ends the cast when a direction is pressed
MovevementEndsCast ==
    /\ pc = "movevement"
    /\ velocity' = WalkVelocity(slot_state)
    /\ is_walking' = \E a \in Directions : IsPressed(slot_state[a])
    /\ firing_spell' = (firing_spell /\ ~is_walking')
    /\ pc' = "animate_mage"
    /\ UNCHANGED <<slot_state, spell_state, spell_cooldown,
                   frame_timer, next_frame_index, sprite_index, reported, dbg_out>>
    /\ UNCHANGED observers

\* (mutant) movevement clears is_walking before the early return
MovevementClearsWalking ==
    /\ pc = "movevement"
    /\ IF firing_spell
       THEN /\ velocity' = [x |-> 0, y |-> 0]
            /\ is_walking' = FALSE
       ELSE /\ velocity' = WalkVelocity(slot_state)
            /\ is_walking' = \E a \in Directions : IsPressed(slot_state[a])
    /\ pc' = "animate_mage"
    /\ UNCHANGED <<slot_state, spell_state, firing_spell, spell_cooldown,
                   frame_timer, next_frame_index, sprite_index, reported, dbg_out>>
    /\ UNCHANGED observers

\* movevement
Movevement ==
    /\ pc = "movevement"
    /\ IF firing_spell
       THEN /\ velocity' = [x |-> 0, y |-> 0]
            /\ UNCHANGED is_walking
       ELSE /\ velocity' = WalkVelocity(slot_state)
            /\ is_walking' = \E a \in Directions : IsPressed(slot_state[a])
    /\ pc' = "animate_mage"
    /\ UNCHANGED <<slot_state, spell_state, firing_spell, spell_cooldown,
                   frame_timer, next_frame_index, sprite_index, reported, dbg_out>>
    /\ UNCHANGED observers

\* (mutant) the attack pose is shown once the cooldown has started to run
AttackPoseDueLate(t) == t.elapsed > 0

\* mage.spell_cooldown.elapsed().is_zero()
AttackPoseDue(t) == t.elapsed = 0

\* (mutant) animate_mage also runs the walk animation during a cast
AnimateMageWalksInCast(delta) ==
    /\ pc = "animate_mage"
    /\ IF firing_spell
       THEN LET ticked == TimerTickOnce(spell_cooldown, SpellCooldownDuration, delta)
                walked == TimerTickRepeating(frame_timer, FrameTimerDuration, delta)
            IN  /\ IF JustFinished(ticked)
                   THEN /\ firing_spell' = FALSE
                        /\ spell_cooldown' = TimerReset(ticked)
                        /\ sprite_index' = IdleFrame
                   ELSE /\ firing_spell' = firing_spell
                        /\ spell_cooldown' = ticked
                        /\ sprite_index' = IF AttackPoseDue(spell_cooldown)
                                           THEN AttackFrame ELSE sprite_index
                /\ frame_timer' = IF is_walking THEN walked ELSE frame_timer
                /\ UNCHANGED next_frame_index
       ELSE IF is_walking
       THEN LET ticked == TimerTickRepeating(frame_timer, FrameTimerDuration, delta)
            IN  /\ frame_timer' = ticked
                /\ IF JustFinished(ticked)
                   THEN /\ sprite_index' = next_frame_index
                        /\ next_frame_index' = CycleAdvance(next_frame_index)
                   ELSE UNCHANGED <<sprite_index, next_frame_index>>
                /\ UNCHANGED <<firing_spell, spell_cooldown>>
       ELSE UNCHANGED <<firing_spell, spell_cooldown, frame_timer,
                        next_frame_index, sprite_index>>
    /\ pc' = "input"
    /\ cast_sum' = IF firing_spell THEN Min(cast_sum + delta, CastSumCap) ELSE cast_sum
    /\ cast_frames' = IF firing_spell THEN Min(cast_frames + 1, CastFramesCap)
                      ELSE cast_frames
    /\ cast_min' = IF firing_spell THEN Min(cast_min, delta) ELSE cast_min
    /\ hold_frames' = IF hold_frames >= 0 THEN hold_frames + 1 ELSE hold_frames
    /\ hold_total' = IF hold_frames >= 0 THEN hold_total + delta ELSE hold_total
    /\ UNCHANGED <<slot_state, spell_state, is_walking, velocity,
                   reported, dbg_out, cast_began, dropped_hold, runs>>

\* (mutant) animate_mage runs without waiting for movevement
AnimateMageUnchained(delta) ==
    /\ pc \in {"movevement", "animate_mage"}
    /\ IF firing_spell
       THEN LET ticked == TimerTickOnce(spell_cooldown, SpellCooldownDuration, delta)
            IN  /\ IF JustFinished(ticked)
                   THEN /\ firing_spell' = FALSE
                        /\ spell_cooldown' = TimerReset(ticked)
                        /\ sprite_index' = IdleFrame
                   ELSE /\ firing_spell' = firing_spell
                        /\ spell_cooldown' = ticked
                        /\ sprite_index' = IF AttackPoseDue(spell_cooldown)
                                           THEN AttackFrame ELSE sprite_index
                /\ UNCHANGED <<frame_timer, next_frame_index>>
       ELSE IF is_walking
       THEN LET ticked == TimerTickRepeating(frame_timer, FrameTimerDuration, delta)
            IN  /\ frame_timer' = ticked
                /\ IF JustFinished(ticked)
                   THEN /\ sprite_index' = next_frame_index
                        /\ next_frame_index' = CycleAdvance(next_frame_index)
                   ELSE UNCHANGED <<sprite_index, next_frame_index>>
                /\ UNCHANGED <<firing_spell, spell_cooldown>>
       ELSE UNCHANGED <<firing_spell, spell_cooldown, frame_timer,
                        next_frame_index, sprite_index>>
    /\ pc' = "input"
    /\ cast_sum' = IF firing_spell THEN Min(cast_sum + delta, CastSumCap) ELSE cast_sum
    /\ cast_frames' = IF firing_spell THEN Min(cast_frames + 1, CastFramesCap)
                      ELSE cast_frames
    /\ cast_min' = IF firing_spell THEN Min(cast_min, delta) ELSE cast_min
    /\ hold_frames' = IF hold_frames >= 0 THEN hold_frames + 1 ELSE hold_frames
    /\ hold_total' = IF hold_frames >= 0 THEN hold_total + delta ELSE hold_total
    /\ UNCHANGED <<slot_state, spell_state, is_walking, velocity,
                   reported, dbg_out, cast_began, dropped_hold, runs>>

\* animate_mage, with time.delta() = delta
AnimateMage(delta) ==
    /\ pc = "animate_mage"
    /\ IF firing_spell
       THEN LET ticked == TimerTickOnce(spell_cooldown, SpellCooldownDuration, delta)
            IN  /\ IF JustFinished(ticked)
                   THEN /\ firing_spell' = FALSE
                        /\ spell_cooldown' = TimerReset(ticked)
                        /\ sprite_index' = IdleFrame
                   ELSE /\ firing_spell' = firing_spell
                        /\ spell_cooldown' = ticked
                        /\ sprite_index' = IF AttackPoseDue(spell_cooldown)
                                           THEN AttackFrame ELSE sprite_index
                /\ UNCHANGED <<frame_timer, next_frame_index>>
       ELSE IF is_walking
       THEN LET ticked == TimerTickRepeating(frame_timer, FrameTimerDuration, delta)
            IN  /\ frame_timer' = ticked
                /\ IF JustFinished(ticked)
                   THEN /\ sprite_index' = next_frame_index
                        /\ next_frame_index' = CycleAdvance(next_frame_index)
                   ELSE UNCHANGED <<sprite_index, next_frame_index>>
                /\ UNCHANGED <<firing_spell, spell_cooldown>>
       ELSE UNCHANGED <<firing_spell, spell_cooldown, frame_timer,
                        next_frame_index, sprite_index>>
    /\ pc' = "input"
    /\ cast_sum' = IF firing_spell THEN Min(cast_sum + delta, CastSumCap) ELSE cast_sum
    /\ cast_frames' = IF firing_spell THEN Min(cast_frames + 1, CastFramesCap)
                      ELSE cast_frames
    /\ cast_min' = IF firing_spell THEN Min(cast_min, delta) ELSE cast_min
    /\ hold_frames' = IF hold_frames >= 0 THEN hold_frames + 1 ELSE hold_frames
    /\ hold_total' = IF hold_frames >= 0 THEN hold_total + delta ELSE hold_total
    /\ UNCHANGED <<slot_state, spell_state, is_walking, velocity,
                   reported, dbg_out, cast_began, dropped_hold, runs>>

Next ==
    \/ \E keys \in SUBSET MageActions : InputManager(keys)
    \/ CopyActionState
    \/ ReportSpellsUsed
    \/ UseSpell
    \/ Movevement
    \/ \E d \in Deltas : AnimateMage(d)

Spec == Init /\ [][Next]_vars

\* The frames whose delta is positive
PositiveDeltas == Deltas \ {0}

\* The keys the termination check presses: both spell keys and one
\* direction of each axis
LiveKeys == {"SpellPrimary", "SpellSecondary", "Right", "Down"}

\* The app loop with time advancing in every frame
NextLive ==
    \/ \E keys \in SUBSET LiveKeys : InputManager(keys)
    \/ CopyActionState
    \/ ReportSpellsUsed
    \/ UseSpell
    \/ Movevement
    \/ \E d \in PositiveDeltas : AnimateMage(d)

\* The app runs its schedules frame after frame: a system that can run does
SpecLive == Init /\ [][NextLive]_vars /\ WF_vars(NextLive)

\* ------------------------------------------------------------------------
\* Two runs side by side: the same systems as functions of a run record
\* ------------------------------------------------------------------------

\* The InputManagerPlugin systems at the start of a frame
RunInputManager(r, keys) ==
    [r EXCEPT !.pc = "copy",
              !.slot_state = [a \in MageActions |->
                                SlotUpdate(a, r.slot_state[a], a \in keys)],
              !.spell_state = [sp \in Spell |-> ActionDataTick(r.spell_state[sp])]]

\* copy_action_state
RunCopyActionState(r) ==
    [r EXCEPT !.pc = "use_spell",
              !.spell_state = CopiedSpellState(r.slot_state, r.spell_state),
              !.reported = FALSE,
              !.dbg_out = {}]

\* report_spells_used
RunReportSpellsUsed(r) ==
    [r EXCEPT !.reported = TRUE,
              !.dbg_out = {sp \in Spell : IsJustPressed(r.spell_state[sp])}]

\* use_spell
RunUseSpell(r) ==
    [r EXCEPT !.pc = "movevement",
              !.firing_spell = IF BlastLaunched(r.spell_state) THEN TRUE ELSE @]

\* movevement
RunMovevement(r) ==
    IF r.firing_spell
    THEN [r EXCEPT !.pc = "animate_mage", !.velocity = [x |-> 0, y |-> 0]]
    ELSE [r EXCEPT !.pc = "animate_mage",
                   !.velocity = WalkVelocity(r.slot_state),
                   !.is_walking = \E a \in Directions : IsPressed(r.slot_state[a])]

\* animate_mage, with time.delta() = delta
RunAnimateMage(r, delta) ==
    IF r.firing_spell
    THEN LET ticked == TimerTickOnce(r.spell_cooldown, SpellCooldownDuration, delta)
         IN  IF JustFinished(ticked)
             THEN [r EXCEPT !.pc = "input",
                            !.firing_spell = FALSE,
                            !.spell_cooldown = TimerReset(ticked),
                            !.sprite_index = IdleFrame]
             ELSE [r EXCEPT !.pc = "input",
                            !.spell_cooldown = ticked,
                            !.sprite_index = IF AttackPoseDue(r.spell_cooldown)
                                             THEN AttackFrame ELSE @]
    ELSE IF r.is_walking
    THEN LET ticked == TimerTickRepeating(r.frame_timer, FrameTimerDuration, delta)
         IN  IF JustFinished(ticked)
             THEN [r EXCEPT !.pc = "input",
                            !.frame_timer = ticked,
                            !.sprite_index = r.next_frame_index,
                            !.next_frame_index = CycleAdvance(r.next_frame_index)]
             ELSE [r EXCEPT !.pc = "input", !.frame_timer = ticked]
    ELSE [r EXCEPT !.pc = "input"]

\* The keys other than E that the two runs share
PairKeys == {"SpellPrimary", "Right", "Down"}

\* Both runs get the same keys, but E is down in run a exactly if ea and in
\* run b exactly if eb
PairInputManager(keys, ea, eb) ==
    /\ runs.a.pc = "input"
    /\ runs.a.reported
    /\ runs' = [a |-> RunInputManager(runs.a,
                        keys \cup (IF ea THEN {"SpellSecondary"} ELSE {})),
                b |-> RunInputManager(runs.b,
                        keys \cup (IF eb THEN {"SpellSecondary"} ELSE {}))]
    /\ UNCHANGED single

PairCopyActionState ==
    /\ runs.a.pc = "copy"
    /\ runs' = [a |-> RunCopyActionState(runs.a), b |-> RunCopyActionState(runs.b)]
    /\ UNCHANGED single

PairReportSpellsUsed ==
    /\ runs.a.pc \in {"use_spell", "movevement", "animate_mage", "input"}
    /\ ~runs.a.reported
    /\ runs' = [a |-> RunReportSpellsUsed(runs.a), b |-> RunReportSpellsUsed(runs.b)]
    /\ UNCHANGED single

PairUseSpell ==
    /\ runs.a.pc = "use_spell"
    /\ runs' = [a |-> RunUseSpell(runs.a), b |-> RunUseSpell(runs.b)]
    /\ UNCHANGED single

PairMovevement ==
    /\ runs.a.pc = "movevement"
    /\ runs' = [a |-> RunMovevement(runs.a), b |-> RunMovevement(runs.b)]
    /\ UNCHANGED single

PairAnimateMage(delta) ==
    /\ runs.a.pc = "animate_mage"
    /\ runs' = [a |-> RunAnimateMage(runs.a, delta), b |-> RunAnimateMage(runs.b, delta)]
    /\ UNCHANGED single

NextPair ==
    \/ \E keys \in SUBSET PairKeys, ea \in BOOLEAN, eb \in BOOLEAN :
          PairInputManager(keys, ea, eb)
    \/ PairCopyActionState
    \/ PairReportSpellsUsed
    \/ PairUseSpell
    \/ PairMovevement
    \/ \E d \in Deltas : PairAnimateMage(d)

\* Two runs of the app on key sequences that differ only in E
SpecPair == Init /\ [][NextPair]_vars

TypeOK ==
    /\ pc \in {"input", "copy", "use_spell", "movevement", "animate_mage"}
    /\ slot_state \in [MageActions -> ActionData]
    /\ spell_state \in [Spell -> ActionData]
    /\ firing_spell \in BOOLEAN
    /\ is_walking \in BOOLEAN
    /\ reported \in BOOLEAN
    /\ dbg_out \subseteq Spell
    /\ cast_began \in BOOLEAN
    /\ cast_sum \in 0..CastSumCap
    /\ hold_frames \in -1..ScenarioFrames
    /\ hold_total \in 0..(ScenarioFrames * MaxDelta)
    /\ cast_frames \in 0..CastFramesCap
    /\ cast_min \in Deltas
    /\ dropped_hold \in BOOLEAN

\* ------------------------------------------------------------------------
\* Properties
\* ------------------------------------------------------------------------

Zero == [x |-> 0, y |-> 0]

Down(action) == IsPressed(slot_state[action])

\* The frame is over: animate_mage has run
EndOfFrame == pc = "input"

\* C1 - Movement exclusivity: once movevement has run in a frame with
\* firing_spell set, the velocity is (0,0) whatever directions are pressed,
\* and so it is at the end of every frame in which firing_spell is set.
C1_MovementExclusivity ==
    (firing_spell /\ pc \in {"animate_mage", "input"}) => velocity = Zero

C1_Witness ==
    /\ pc = "animate_mage"
    /\ firing_spell
    /\ \A a \in Directions : Down(a)
    /\ velocity = Zero

\* C2 - Cooldown exact timing: when animate_mage runs during a cast, the
\* cast goes on exactly if the deltas summed since the frame the cast began
\* (that frame included) stay below 0.5 s; on the first frame where the sum
\* reaches 0.5 s firing_spell is cleared and the sprite index is 0.
C2_CooldownExactTiming ==
    [][(pc = "animate_mage" /\ firing_spell)
          => /\ firing_spell' <=> (cast_sum' < SpellCooldownDuration)
             /\ ~firing_spell' => sprite_index' = 0]_vars

C2_Witness ==
    /\ EndOfFrame
    /\ ~cast_began
    /\ ~firing_spell
    /\ cast_sum = SpellCooldownDuration
    /\ sprite_index = 0

\* C3 - Cast latch idempotence: use_spell during a cast leaves firing_spell
\* set and the cooldown timer untouched; firing_spell is set only by
\* use_spell on a just_pressed BlastLaunch; and the cast ends on the frame
\* where the deltas summed since the first press reach 0.5 s, whatever was
\* pressed meanwhile.
C3_CastLatchIdempotence ==
    [][/\ (firing_spell /\ pc = "use_spell")
            => (firing_spell' /\ spell_cooldown' = spell_cooldown)
       /\ (~firing_spell /\ firing_spell')
            => (pc = "use_spell" /\ IsJustPressed(spell_state["BlastLaunch"]))
       /\ (firing_spell /\ ~firing_spell')
            => (cast_sum < SpellCooldownDuration /\ cast_sum' >= SpellCooldownDuration)
       /\ (firing_spell' /\ pc' = "input")
            => cast_sum' < SpellCooldownDuration]_vars

C3_Witness ==
    /\ pc = "movevement"
    /\ firing_spell
    /\ ~cast_began
    /\ IsJustPressed(spell_state["BlastLaunch"])
    /\ spell_cooldown.elapsed > 0

\* C4 as stated - at the end of the frame in which a cast began, whatever
\* the delta: firing_spell, sprite index 2 and velocity (0,0); and once the
\* summed deltas have reached 0.5 s, no firing_spell and sprite index 0.
C4_Original ==
    /\ (EndOfFrame /\ cast_began)
          => (firing_spell /\ sprite_index = AttackFrame /\ velocity = Zero)
    /\ (EndOfFrame /\ cast_sum >= SpellCooldownDuration)
          => (~firing_spell /\ sprite_index = 0)

\* C4 - End-to-end cast scenario, amended: at the end of the frame in which
\* a cast began, if the delta of that frame is below 0.5 s, firing_spell is
\* set, the sprite index is 2 and the velocity is (0,0) even with Right
\* held; the velocity is (0,0) for every delta; and once the summed deltas
\* have reached 0.5 s (on that same frame when its delta is 0.5 s or more)
\* firing_spell is clear and the sprite index is 0.
C4_CastScenario ==
    /\ (EndOfFrame /\ cast_began /\ cast_sum < SpellCooldownDuration)
          => (firing_spell /\ sprite_index = AttackFrame)
    /\ (EndOfFrame /\ cast_began) => velocity = Zero
    /\ (EndOfFrame /\ cast_sum >= SpellCooldownDuration)
          => (~firing_spell /\ sprite_index = 0)

C4_Witness ==
    /\ EndOfFrame
    /\ cast_began
    /\ Down("Right")
    /\ firing_spell
    /\ sprite_index = AttackFrame
    /\ velocity = Zero

\* C5 - Projection fidelity: once copy_action_state has run in a frame, the
\* ActionData of every spell a slot maps to equals the ActionData of that
\* slot, so BlastLaunch mirrors SpellPrimary and BlastActivate mirrors
\* SpellSecondary when use_spell and report_spells_used read them.
C5_ProjectionFidelity ==
    pc # "copy" =>
        \A slot \in DOMAIN SpellSlotMap :
            spell_state[SpellSlotMap[slot]] = slot_state[slot]

C5_Witness ==
    /\ pc = "use_spell"
    /\ ~reported
    /\ spell_state["BlastLaunch"].state = "JustPressed"
    /\ spell_state["BlastActivate"].state = "JustReleased"
    /\ slot_state["SpellPrimary"].state = "JustPressed"
    /\ slot_state["SpellSecondary"].state = "JustReleased"

\* C6 - Axis cancellation determinism: after movevement has run while not
\* casting, Left+Right gives x = -10 and Up+Down gives y = -10, a single
\* direction gives +10 for Right/Up and -10 for Left/Down, and an axis with
\* no direction pressed is 0, whatever the velocity was before.
C6_AxisCancellation ==
    (pc = "animate_mage" /\ ~firing_spell) =>
        /\ (Down("Left") /\ Down("Right")) => velocity.x = -10
        /\ (Down("Up") /\ Down("Down")) => velocity.y = -10
        /\ (Down("Right") /\ ~Down("Left")) => velocity.x = 10
        /\ (Down("Left") /\ ~Down("Right")) => velocity.x = -10
        /\ (Down("Up") /\ ~Down("Down")) => velocity.y = 10
        /\ (Down("Down") /\ ~Down("Up")) => velocity.y = -10
        /\ (~Down("Left") /\ ~Down("Right")) => velocity.x = 0
        /\ (~Down("Up") /\ ~Down("Down")) => velocity.y = 0

C6_Witness ==
    /\ pc = "animate_mage"
    /\ ~firing_spell
    /\ \A a \in Directions : Down(a)
    /\ velocity = [x |-> -10, y |-> -10]

\* C7 - Walk cycle sequencing: every completion of the walk frame timer
\* while walking shows frame 1 when frame 0 was shown and frame 0 when
\* frame 1 was shown, from every reachable state.
C7_WalkCycleSequencing ==
    [][(/\ pc = "animate_mage"
        /\ ~firing_spell
        /\ is_walking
        /\ next_frame_index' # next_frame_index)
          => /\ sprite_index = 0 => sprite_index' = 1
             /\ sprite_index = 1 => sprite_index' = 0]_vars

\* C8 - End-to-end walk scenario: holding only D from the initial state, for
\* up to three frames, the velocity is (10,0) at the end of every frame and
\* the sprite index is 0 before the first 0.5 s boundary, 1 from the first
\* boundary on and 0 from the second boundary on.
C8_WalkScenario ==
    (EndOfFrame /\ hold_frames >= 1 /\ hold_total < 3 * FrameTimerDuration) =>
        /\ velocity = [x |-> 10, y |-> 0]
        /\ sprite_index = (hold_total \div FrameTimerDuration) % 2

\* C9 - In every reachable state the sprite index is a frame of the atlas:
\* 0, 1 or 2.
C9_FrameInAtlas == sprite_index \in 0..(AtlasColumns - 1)

C9_Witness ==
    /\ sprite_index = AttackFrame
    /\ next_frame_index = 0
    /\ firing_spell

\* C10 - One-way latch: firing_spell goes from set to clear only in
\* animate_mage, on a frame whose delta takes the cooldown timer to its
\* duration, and the timer is reset then; use_spell and movevement never
\* clear it.
C10_OneWayLatch ==
    [][(firing_spell /\ ~firing_spell')
          => /\ pc = "animate_mage"
             /\ spell_cooldown.elapsed + (cast_sum' - cast_sum) >= SpellCooldownDuration
             /\ spell_cooldown' = NewTimer]_vars

C10_Witness ==
    /\ pc = "animate_mage"
    /\ firing_spell
    /\ spell_cooldown.elapsed > 0
    /\ Down("Left")
    /\ spell_state["BlastLaunch"].state = "Released"

FrameOrder ==
    {<<"input", "copy">>, <<"copy", "use_spell">>, <<"use_spell", "movevement">>,
     <<"movevement", "animate_mage">>, <<"animate_mage", "input">>}

\* A step of report_spells_used
ReportStep == ~reported /\ reported'

\* C12 as stated - the systems of a frame run in the order input, copy,
\* use_spell, movevement, animate_mage, and report_spells_used runs before
\* movevement.
C12_Original ==
    [][/\ pc' # pc => <<pc, pc'>> \in FrameOrder
       /\ ReportStep => pc \in {"use_spell", "movevement"}]_vars

\* C12 - amended: the systems of a frame run in the order input, copy,
\* use_spell, movevement, animate_mage, none before the earlier one is done;
\* report_spells_used runs once per frame, after copy_action_state and
\* before the input update of the next frame, at any point of the chain
\* use_spell, movevement, animate_mage (also after movevement or
\* animate_mage).
C12_PipelineOrder ==
    [][/\ pc' # pc => <<pc, pc'>> \in FrameOrder
       /\ ReportStep => pc \in {"use_spell", "movevement", "animate_mage", "input"}
       /\ (pc = "input" /\ pc' # pc) => reported
       /\ (reported /\ ~reported') => pc = "copy"]_vars

C12_Witness ==
    /\ EndOfFrame
    /\ ~reported
    /\ IsJustPressed(spell_state["BlastLaunch"])
    /\ firing_spell

\* C13 - Animation priority: when animate_mage runs with firing_spell set it
\* leaves the walk frame timer and the walk cycle alone, whatever is_walking
\* is; when it runs with neither firing_spell nor is_walking it leaves the
\* sprite index, the walk frame timer, the walk cycle and the cooldown
\* timer alone.
C13_AnimationPriority ==
    [][/\ (pc = "animate_mage" /\ firing_spell)
            => (frame_timer' = frame_timer /\ next_frame_index' = next_frame_index)
       /\ (pc = "animate_mage" /\ ~firing_spell /\ ~is_walking)
            => /\ sprite_index' = sprite_index
               /\ frame_timer' = frame_timer
               /\ next_frame_index' = next_frame_index
               /\ spell_cooldown' = spell_cooldown]_vars

C13_Witness ==
    /\ EndOfFrame
    /\ firing_spell
    /\ is_walking
    /\ spell_cooldown.elapsed > 0
    /\ frame_timer.elapsed > 0

\* C14 - animate_mage is the only writer of the sprite index: no step of
\* the input update, copy_action_state, use_spell, report_spells_used or
\* movevement changes it.
C14_SoleFrameWriter ==
    [][sprite_index' # sprite_index => (pc = "animate_mage" /\ pc' = "input")]_vars

C14_Witness ==
    /\ pc = "movevement"
    /\ cast_began
    /\ reported
    /\ sprite_index = 1

CharacterState == <<firing_spell, is_walking, spell_cooldown>>

\* C15 as stated - firing_spell, is_walking and the cooldown timer change
\* only in steps of movevement and animate_mage.
C15_Original ==
    [][CharacterState' # CharacterState
          => (pc \in {"movevement", "animate_mage"} /\ pc' # pc)]_vars

\* C15 - amended: firing_spell, is_walking and the cooldown timer change
\* only in steps of use_spell, movevement and animate_mage: use_spell sets
\* firing_spell and changes nothing else of them, movevement changes only
\* is_walking, animate_mage changes only firing_spell and the cooldown
\* timer; the input update, copy_action_state and report_spells_used change
\* none of them.
C15_CharacterStateWriters ==
    [][CharacterState' # CharacterState
          => /\ pc \in {"use_spell", "movevement", "animate_mage"}
             /\ pc' # pc
             /\ pc = "use_spell"
                  => (~firing_spell /\ firing_spell'
                      /\ is_walking' = is_walking
                      /\ spell_cooldown' = spell_cooldown)
             /\ pc = "movevement"
                  => (firing_spell' = firing_spell /\ spell_cooldown' = spell_cooldown)
             /\ pc = "animate_mage" => is_walking' = is_walking]_vars

C15_Witness ==
    /\ pc = "movevement"
    /\ cast_began
    /\ ~reported
    /\ firing_spell
    /\ spell_cooldown = NewTimer

\* C17 - At the end of every frame firing_spell is set exactly if the
\* sprite index is 2: the attack pose is never on display without a cast,
\* and no cast is in progress with frame 0 or 1 on display.
C17_CastingIffAttackFrame ==
    EndOfFrame => (firing_spell <=> sprite_index = AttackFrame)

C17_Witness ==
    /\ EndOfFrame
    /\ firing_spell
    /\ sprite_index = AttackFrame
    /\ next_frame_index = 0
    /\ spell_cooldown.elapsed > 0

\* C18 - At the end of every frame the cooldown timer has less than 0.5 s
\* elapsed, and nothing elapsed (and is not finished) whenever firing_spell
\* is clear; so a cast that begins finds the timer at zero.
C18_CooldownAtRest ==
    /\ EndOfFrame =>
          /\ spell_cooldown.elapsed < SpellCooldownDuration
          /\ ~firing_spell => spell_cooldown = NewTimer
    /\ (pc = "movevement" /\ cast_began) => spell_cooldown = NewTimer

C18_Witness ==
    /\ EndOfFrame
    /\ ~firing_spell
    /\ cast_sum > SpellCooldownDuration
    /\ spell_cooldown = NewTimer
    /\ ~cast_began

\* C19 - Every cast terminates: with frames that keep coming, each with a
\* positive delta, firing_spell set leads to firing_spell clear; and a cast
\* still running at the end of its n-th frame has n below ceil(0.5 s / d),
\* d the smallest delta of those frames (n * d < 0.5 s), whatever is
\* pressed meanwhile.
C19_CastTerminates ==
    /\ firing_spell ~> ~firing_spell
    /\ []((EndOfFrame /\ firing_spell)
            => cast_frames * cast_min < SpellCooldownDuration)

C19_Witness ==
    /\ EndOfFrame
    /\ ~firing_spell
    /\ cast_frames = SpellCooldownDuration
    /\ cast_min = 1
    /\ velocity = Zero
    /\ Down("Right")

\* C20 - A BlastLaunch press that use_spell sees while firing_spell is
\* already set (also on the frame the cooldown completes) is dropped: as
\* long as Q stays down afterwards no cast begins, and once firing_spell is
\* clear it stays clear.
C20_PressDuringCastDropped ==
    [][/\ dropped_hold' => ~cast_began'
       /\ (dropped_hold /\ dropped_hold' /\ ~firing_spell) => ~firing_spell']_vars

C20_Witness ==
    /\ EndOfFrame
    /\ dropped_hold
    /\ ~firing_spell
    /\ cast_sum = 0
    /\ spell_state["BlastLaunch"].state = "Pressed"

\* What the game shows of a run: firing_spell, is_walking, the cooldown
\* timer, the velocity and the sprite index
Gameplay(r) ==
    <<r.firing_spell, r.is_walking, r.spell_cooldown, r.velocity, r.sprite_index>>

\* C16 - BlastActivate has no gameplay effect: two runs whose key sequences
\* differ only in the presses and releases of E agree on firing_spell,
\* is_walking, the cooldown timer, the velocity and the sprite index after
\* every system of every frame.
C16_BlastActivateNoEffect == Gameplay(runs.a) = Gameplay(runs.b)

C16_Witness ==
    /\ runs.a.pc = "input"
    /\ runs.a.dbg_out = {"BlastLaunch", "BlastActivate"}
    /\ runs.b.dbg_out = {"BlastLaunch"}
    /\ runs.a.firing_spell
    /\ runs.b.firing_spell
    /\ runs.a.velocity = Zero
====
